---- MODULE Spec2Model ----
(***************************************************************************)
(* The neuroevolution engine of Flappy-Bird-with-AI (BirdBrain, Network,   *)
(* Genome, Generation, Generations) as a state machine.                    *)
(*                                                                         *)
(* Numbers that are fractions in the source are fixed point, in            *)
(* hundredths: the rate 0.2 is 20, the weight -0.5 is -50, and an outcome  *)
(* of Math.random() in [0, 1) is one of RandomDraws.                       *)
(***************************************************************************)
EXTENDS Integers, Sequences, FiniteSets, TLC

VARIABLES
    options,      \* the module-level options object (part_000 lines 1-35)
    generations,  \* Generations.generations: the history, oldest first
    nns,          \* the Networks last returned by BirdBrain.nextGeneration
    networks,     \* the saves last returned by Generations.nextGeneration
    pc,           \* where control is: "idle", or inside the breeding loop
    caller,       \* who made the last next-generation call
    nexts,        \* generateNextGeneration's local array
    max,          \* generateNextGeneration's cursor
    cur,          \* the for loop's i inside the while loop
    ret,          \* what the last call of a method that returns gave
    calls,        \* how many next-generation calls were made (bounded)
    scored,       \* how many scores were reported
    nn,           \* a Network's layers, each neuron with value and weights
    dataSet,      \* the save last returned by getSave or given to setSave
    computed,     \* the compute calls made on nn since its weights were set
    op,           \* the Network method called last, and whether it threw
    steps,        \* how many Network methods were called (bounded)
    others,       \* the histories of the BirdBrain instances made later
    birds,        \* Game.birds: each bird alive or not, and its steps so far
    gameScore,    \* Game.score: the ticks since the generation started
    alives,       \* Game.alives
    generation,   \* Game.generation: the populations the game has started
    gpc,          \* where the game is: between ticks, or inside start()
    key,          \* the key of the per-bird loop at which start() was called
    keys          \* how many keys the array of that loop has

\* The engine's variables, and those of a Network and of other engines.
engine == <<options, generations, nns, networks, pc, caller, nexts, max, cur,
            ret, calls, scored>>
game == <<birds, gameScore, alives, generation, gpc, key, keys>>
aside == <<nn, dataSet, computed, op, steps, others, game>>
vars == <<engine, aside>>

\* ------------------------------------------------------------ bounds
MaxCalls == 2
MaxScored == 3

\* Outcomes of Math.random(), in hundredths; 0 is possible, 1 is not.
RandomDraws == {0, 75}
\* Scores the caller reports.
Scores == {0, 1}

\* ------------------------------------------------------------ helpers
Min(S) == CHOOSE x \in S : \A y \in S : x <= y

\* Math.round(rate * population) with the rate in hundredths.
Round(rate, population) == (2 * rate * population + 100) \div 200

\* options.randomClamped: Math.random() * 2 - 1, in hundredths.
RandomClamped(draw) == 2 * draw - 100

\* ------------------------------------------------------------ options
Defaults ==
    [network |-> <<1, <<1>>, 1>>, population |-> 50, elitism |-> 20,
     randomBehaviour |-> 20, mutationRate |-> 10, mutationRange |-> 50,
     historic |-> 0, lowHistoric |-> FALSE, scoreSort |-> -1, nbChild |-> 1]

\* A loop that stops after the first key it copies.
SetOptionsFirstKey(opts, initOptions) ==
    LET first == CHOOSE k \in DOMAIN initOptions : TRUE
    IN  [k \in DOMAIN opts \cup {first} |->
            IF k = first THEN initOptions[k] ELSE opts[k]]

\* BirdBrain.set: every own key of initOptions overwrites the global options.
SetOptions(opts, initOptions) ==
    [k \in DOMAIN opts \cup DOMAIN initOptions |->
        IF k \in DOMAIN initOptions THEN initOptions[k] ELSE opts[k]]

\* ------------------------------------------------------------ Network
Sizes(input, hidden, output) == <<input>> \o hidden \o <<output>>

\* previousNeurons taken from the layer itself.
PreviousNeuronsOwn(sizes, l) == sizes[l]

\* The number of inputs of the neurons of layer l (previousNeurons).
PreviousNeurons(sizes, l) == IF l = 1 THEN 0 ELSE sizes[l - 1]

RECURSIVE WeightsBefore(_, _)
\* How many weights the layers before layer l hold (indexWeights).
WeightsBefore(sizes, l) ==
    IF l <= 1 THEN 0
    ELSE WeightsBefore(sizes, l - 1)
         + sizes[l - 1] * PreviousNeurons(sizes, l - 1)

NbWeights(sizes) == WeightsBefore(sizes, Len(sizes) + 1)

\* Reading an array past its end gives undefined.
At(flat, n) == IF n <= Len(flat) THEN flat[n] ELSE "undefined"

\* Layers of the given sizes whose weights are, in layer, neuron and weight
\* order, the entries of flat (Layer.populate, then the weights assigned).
Layers(sizes, flat) ==
    [l \in 1..Len(sizes) |->
        [j \in 1..sizes[l] |->
            [value |-> 0,
             weights |->
                [k \in 1..PreviousNeurons(sizes, l) |->
                    At(flat, WeightsBefore(sizes, l)
                             + (j - 1) * PreviousNeurons(sizes, l) + k)]]]]

\* Network.perceptronGeneration on a new Network; draws are Math.random()'s.
PerceptronGeneration(input, hidden, output, draws) ==
    Layers(Sizes(input, hidden, output),
           [n \in 1..Len(draws) |-> RandomClamped(draws[n])])

RECURSIVE NeuronWeightsBackwards(_)
\* The neurons of a layer taken last to first.
NeuronWeightsBackwards(neurons) ==
    IF neurons = <<>> THEN <<>>
    ELSE NeuronWeightsBackwards(Tail(neurons)) \o Head(neurons).weights

RECURSIVE NeuronWeights(_)
NeuronWeights(neurons) ==
    IF neurons = <<>> THEN <<>>
    ELSE Head(neurons).weights \o NeuronWeights(Tail(neurons))

RECURSIVE LayerWeights(_)
LayerWeights(layers) ==
    IF layers = <<>> THEN <<>>
    ELSE NeuronWeights(Head(layers)) \o LayerWeights(Tail(layers))

\* Network.getSave: a new object, shared with nothing.
GetSave(layers) ==
    [neurons |-> [l \in 1..Len(layers) |-> Len(layers[l])],
     weights |-> LayerWeights(layers)]

\* Network.setSave on a new Network.
SetSave(save) == Layers(save.neurons, save.weights)

\* A number, and neither undefined nor NaN.
IsNumber(v) == ToString(v) \notin {ToString("undefined"), ToString("NaN")}

\* options.activation, the logistic function 1 / (1 + exp(-a)), on a in
\* hundredths: its value, in hundredths, at the nearest half unit between
\* -3 and 3, and at -3 or 3 beyond. NaN goes through.
ActivationTable == <<5, 8, 12, 18, 27, 38, 50, 62, 73, 82, 88, 92, 95>>
Activation(a) ==
    IF ~IsNumber(a) THEN "NaN"
    ELSE IF a < -300 THEN ActivationTable[1]
    ELSE IF a >= 300 THEN ActivationTable[13]
    ELSE ActivationTable[(a + 325) \div 50 + 1]

\* value * weight; undefined or NaN on either side gives NaN.
Product(value, weight) ==
    IF IsNumber(value) /\ IsNumber(weight) THEN value * weight ELSE "NaN"

\* sum += term, in ten-thousandths.
Plus(sum, term) ==
    IF IsNumber(sum) /\ IsNumber(term) THEN sum + term ELSE "NaN"

RECURSIVE SumKeeping(_, _, _)
\* A sum that starts from the value the neuron was left with.
SumKeeping(neuron, prev, k) ==
    IF k = 0 THEN Product(neuron.value, 100)
    ELSE Plus(SumKeeping(neuron, prev, k - 1),
              Product(prev[k].value, At(neuron.weights, k)))

RECURSIVE Sum(_, _, _)
\* Lines 306-313: let sum = 0, then the first k neurons of the previous
\* layer each times the neuron's weight of the same index.
Sum(neuron, prev, k) ==
    IF k = 0 THEN 0
    ELSE Plus(Sum(neuron, prev, k - 1),
              Product(prev[k].value, At(neuron.weights, k)))

\* A sum in ten-thousandths as hundredths.
Hundredths(sum) == IF IsNumber(sum) THEN sum \div 100 ELSE "NaN"

\* Lines 296-300: the input layer takes the inputs it has neurons for, and
\* a neuron without an input keeps its value.
WithInputs(layers, inputs) ==
    IF layers = <<>> THEN layers
    ELSE [layers EXCEPT ![1] =
            [i \in 1..Len(layers[1]) |->
                IF i <= Len(inputs)
                THEN [layers[1][i] EXCEPT !.value = inputs[i]]
                ELSE layers[1][i]]]

RECURSIVE Forward(_, _)
\* Lines 302-320: the layers after the loop has gone through layer i.
Forward(layers, i) ==
    IF i <= 1 THEN layers
    ELSE LET before == Forward(layers, i - 1)
             prevLayer == before[i - 1]
         IN  [before EXCEPT ![i] =
                [j \in 1..Len(before[i]) |->
                    [before[i][j] EXCEPT !.value =
                        Activation(Hundredths(
                            Sum(before[i][j], prevLayer,
                                Len(prevLayer))))]]]

\* Network.compute: the layers it leaves and what it returns. Without a
\* layer lastLayer is undefined and reading its neurons throws.
Compute(layers, inputs) ==
    LET after == Forward(WithInputs(layers, inputs), Len(layers))
    IN  IF layers = <<>>
        THEN [layers |-> layers, threw |-> TRUE, out |-> <<>>]
        ELSE [layers |-> after, threw |-> FALSE,
              out |-> [i \in 1..Len(after[Len(after)]) |->
                          after[Len(after)][i].value]]

\* ------------------------------------------------------------ Genome
\* new Genome(score, network): score || 0.
Genome(score, network) == [score |-> score, network |-> network]

\* ------------------------------------------------------------ objects
\* A reference to the network object stored in genome i of genomes: shared
\* names the genome whose object it is; <<>> marks an object of its own.
NetworkOf(genomes, i) ==
    [shared |-> <<i>>,
     neurons |-> genomes[i].network.neurons,
     weights |-> genomes[i].network.weights]

\* JSON.parse(JSON.stringify(obj)): the same numbers in a new object.
JSONClone(obj) ==
    [shared |-> <<>>, neurons |-> obj.neurons, weights |-> obj.weights]

\* What the stored genomes are after writes made through the objects objs:
\* a write to an object shared with genome i is a write to genome i.
WriteThrough(genomes, objs) ==
    [i \in 1..Len(genomes) |->
        LET hits == {c \in 1..Len(objs) : objs[c].shared = <<i>>}
        IN  IF hits = {} THEN genomes[i]
            ELSE [genomes[i] EXCEPT
                    !.network = [neurons |-> objs[Min(hits)].neurons,
                                 weights |-> objs[Min(hits)].weights]]]

\* ------------------------------------------------------------ Generation
\* A scan that never stops: every genome is appended.
InsertAtEnd(genomes, genome) == Len(genomes) + 1

\* A scan that also stops at an equal score.
InsertBeforeEquals(genomes, genome) ==
    LET stops == {i \in 1..Len(genomes) :
                    IF options.scoreSort < 0
                    THEN genome.score >= genomes[i].score
                    ELSE genome.score <= genomes[i].score}
    IN  IF stops = {} THEN Len(genomes) + 1 ELSE Min(stops)

\* Generation.addGenome: the index (from 1) the scan stops at.
InsertAt(genomes, genome) ==
    LET stops == {i \in 1..Len(genomes) :
                    IF options.scoreSort < 0
                    THEN genome.score > genomes[i].score
                    ELSE genome.score < genomes[i].score}
    IN  IF stops = {} THEN Len(genomes) + 1 ELSE Min(stops)

\* A splice that takes out the genome it finds at the index.
AddGenomeReplacing(genomes, genome) ==
    LET i == InsertAt(genomes, genome)
    IN  SubSeq(genomes, 1, i - 1) \o <<genome>>
        \o SubSeq(genomes, i + 1, Len(genomes))

\* Generation.addGenome: genomes.splice(i, 0, genome).
AddGenome(genomes, genome) ==
    LET i == InsertAt(genomes, genome)
    IN  SubSeq(genomes, 1, i - 1) \o <<genome>>
        \o SubSeq(genomes, i, Len(genomes))

\* One weight of one child of breed. draw.cross, draw.mutate and draw.amount
\* are the three Math.random() outcomes the weight may consume.
Crossed(w1, w2, k, draw) ==
    IF k <= Len(w2) /\ draw.cross <= 50 THEN w2[k] ELSE At(w1, k)

\* An amount drawn between -1 and 1, whatever the range.
MutationAmountUnscaled(draw) == RandomClamped(draw.amount)

\* Math.random() * options.mutationRange * 2 - options.mutationRange.
MutationAmount(draw) ==
    (draw.amount * options.mutationRange * 2) \div 100 - options.mutationRange

Mutates(draw) == draw.mutate <= options.mutationRate

Mutated(w, draw) == IF Mutates(draw) THEN w + MutationAmount(draw) ELSE w

\* In a sparse array the crossover loop may leave holes past g1's weights;
\* the mutation loop (for ... in) skips them.
IsHole(w1, w2, k, draw) == k > Len(w1) /\ ~(k <= Len(w2) /\ draw.cross <= 50)

ChildLength(w1, w2, draws) ==
    LET crossed == {k \in 1..Len(w2) : draws[k].cross <= 50}
                   \cup {k \in 1..Len(w1) : TRUE}
    IN  IF crossed = {} THEN 0 ELSE CHOOSE k \in crossed : \A j \in crossed : j <= k

\* Genome 1's own network object, not a clone of it.
BreedAlias(obj) == obj

\* The object breed starts a child from: a deep clone of genome 1.
BreedClone(obj) == JSONClone(obj)

\* Generation.breed: g1 and g2 are [score, network] with network a reference;
\* draws[nb][k] holds the draws of weight k of child nb.
Breed(g1, g2, nbchildren, draws) ==
    [nb \in 1..nbchildren |->
        LET data == BreedClone(g1.network)
            w1 == data.weights
            w2 == g2.network.weights
        IN  [score |-> g1.score,
             network |->
                [data EXCEPT !.weights =
                    [k \in 1..ChildLength(w1, w2, draws[nb]) |->
                        IF IsHole(w1, w2, k, draws[nb][k]) THEN "undefined"
                        ELSE Mutated(Crossed(w1, w2, k, draws[nb][k]),
                                     draws[nb][k])]]]]

ElitismCount == Round(options.elitism, options.population)
RandomCount == Round(options.randomBehaviour, options.population)

\* genomes[i] is undefined, or its network was deleted: the read throws.
Unreadable(genomes, i) ==
    i > Len(genomes) \/ "network" \notin DOMAIN genomes[i]

\* The genome's own network object, not a copy of it.
EliteAlias(genomes, i) == NetworkOf(genomes, i)

\* The object the elitism stage pushes for genome i.
EliteCopy(genomes, i) == JSONClone(NetworkOf(genomes, i))

RECURSIVE ElitismLoop(_, _, _)
\* generateNextGeneration, first loop; i counts from 0 as in the source.
ElitismLoop(genomes, i, acc) ==
    IF i >= ElitismCount THEN [thrown |-> FALSE, nexts |-> acc]
    ELSE IF Len(acc) < options.population
         THEN IF Unreadable(genomes, i + 1)
              THEN [thrown |-> TRUE, nexts |-> acc]
              ELSE ElitismLoop(genomes, i + 1,
                               Append(acc, EliteCopy(genomes, i + 1)))
         ELSE ElitismLoop(genomes, i + 1, acc)

\* A copy of genome 0's network with every weight drawn anew.
RandomNetwork(genomes, draws) ==
    [JSONClone(NetworkOf(genomes, 1)) EXCEPT
        !.weights = [k \in DOMAIN @ |-> RandomClamped(draws[k])]]

RECURSIVE RandomLoop(_, _, _, _)
\* generateNextGeneration, second loop; draws holds one sequence of
\* Math.random() outcomes for each network that is pushed.
RandomLoop(genomes, i, acc, draws) ==
    IF i >= RandomCount THEN [thrown |-> FALSE, nexts |-> acc]
    ELSE IF Unreadable(genomes, 1) THEN [thrown |-> TRUE, nexts |-> acc]
    ELSE IF Len(acc) < options.population
         THEN RandomLoop(genomes, i + 1,
                         Append(acc, RandomNetwork(genomes, Head(draws))),
                         Tail(draws))
         ELSE RandomLoop(genomes, i + 1, acc, draws)

\* How many networks the second loop pushes after the first left n.
RandomPushed(genomes, n) ==
    IF Unreadable(genomes, 1) \/ options.population - n <= 0
       \/ RandomCount <= 0 THEN 0
    ELSE IF RandomCount < options.population - n THEN RandomCount
    ELSE options.population - n

\* options.nbChild > 0 ? options.nbChild : 1
NbChildren == IF options.nbChild > 0 THEN options.nbChild ELSE 1

\* A for loop that also takes the pass i = max.
ForContinuesInclusive(i, m) == i <= m

\* The for loop's condition, i < max.
ForContinues(i, m) == i < m

\* The cursor after max++ in the while loop: back to 0 at the last genome.
Wrapped(m, genomes) == IF m >= Len(genomes) - 1 THEN 0 ELSE m

\* The children pushed onto acc: the loop returns as soon as the
\* population is reached (a push comes before the test).
RECURSIVE PushChildren(_, _)
PushChildren(acc, children) ==
    IF children = <<>> THEN [returned |-> FALSE, nexts |-> acc]
    ELSE LET pushed == Append(acc, Head(children).network)
         IN  IF Len(pushed) >= options.population
             THEN [returned |-> TRUE, nexts |-> pushed]
             ELSE PushChildren(pushed, Tail(children))

\* ------------------------------------------------------------ inputs
\* What the caller passes to new BirdBrain(...), as Game.js does. The sort
\* order is chosen here and never changed afterwards.
ConstructorOptions ==
    { [population |-> 2, network |-> <<1, <<>>, 1>>, mutationRange |-> 0],
      [population |-> 2, network |-> <<1, <<>>, 1>>, mutationRange |-> 0,
       elitism |-> 50, lowHistoric |-> TRUE, nbChild |-> 2,
       scoreSort |-> 1] }

\* What the caller passes to set(...) later on.
SetInputs ==
    { [historic |-> 1], [population |-> 0, elitism |-> 150] }

\* The three Math.random() outcomes one weight of a child may consume.
DrawTriples == [cross : RandomDraws, mutate : RandomDraws, amount : RandomDraws]

\* The Networks the caller holds: those of the last population, or, before
\* any, a new Network() without layers.
CallerNetworks == IF nns = <<>> THEN {<<>>} ELSE {nns[i] : i \in 1..Len(nns)}

\* ------------------------------------------------------------ BirdBrain
\* Lines 104-110: what is left of the history.
Retained(gens) ==
    IF options.historic # -1 /\ Len(gens) > options.historic + 1
    THEN SubSeq(gens, Len(gens) - (options.historic + 1) + 1, Len(gens))
    ELSE gens

\* Lines 91-97: with lowHistoric and two generations the index expression
\* reads self.generations.generations; self is the window, which has no
\* generations property, so the read throws a TypeError.
StripThrows(gens) == options.lowHistoric /\ Len(gens) >= 2

\* BirdBrain.nextGeneration from line 81 on: gens is the history as the
\* Generations call left it, ns the saves it returned.
AfterGenerations(gens, ns) ==
    /\ networks' = ns
    /\ pc' = "idle"
    /\ nexts' = <<>>
    /\ max' = 0
    /\ cur' = 0
    /\ IF StripThrows(gens)
       THEN /\ generations' = gens
            /\ nns' = nns
            /\ ret' = "TypeError"
       ELSE /\ generations' = Retained(gens)
            /\ nns' = [i \in 1..Len(ns) |-> SetSave(ns[i])]
            /\ ret' = "Networks"

\* Generations.nextGeneration from line 530 on, then its caller.
Return(gens, ns) ==
    IF caller = "Generations"
    THEN /\ generations' = Append(gens, <<>>)
         /\ networks' = ns
         /\ ret' = "saves"
         /\ pc' = "idle"
         /\ nexts' = <<>>
         /\ max' = 0
         /\ cur' = 0
         /\ nns' = nns
    ELSE AfterGenerations(Append(gens, <<>>), ns)

\* genomes[i] is undefined in one of generateNextGeneration's first two
\* loops: the TypeError leaves through every caller.
Throw ==
    /\ ret' = "TypeError"
    /\ UNCHANGED <<generations, nns, networks, pc, nexts, max, cur>>

\* generateNextGeneration up to the while loop, on the last generation.
StartGeneration ==
    LET genomes == generations[Len(generations)]
        e == ElitismLoop(genomes, 0, <<>>)
    IN  IF e.thrown THEN Throw
        ELSE \E draws \in
                 [1..RandomPushed(genomes, Len(e.nexts)) ->
                     [1..(IF Unreadable(genomes, 1) THEN 0
                          ELSE Len(genomes[1].network.weights)) ->
                         RandomDraws]] :
               LET r == RandomLoop(genomes, 0, e.nexts, draws)
               IN  IF r.thrown THEN Throw
                   ELSE /\ pc' = "for"
                        /\ nexts' = r.nexts
                        /\ max' = 0
                        /\ cur' = 0
                        /\ ret' = "running"
                        /\ UNCHANGED <<generations, nns, networks>>

\* Generations.firstGeneration: the saves of population new networks.
FirstGeneration(draws) ==
    LET net == options.network
    IN  [i \in 1..options.population |->
            [shared |-> <<>>] @@
            GetSave(PerceptronGeneration(net[1], net[2], net[3], draws[i]))]

\* The Math.random() outcomes firstGeneration may consume.
FirstDraws ==
    LET net == options.network
    IN  [1..options.population ->
            [1..NbWeights(Sizes(net[1], net[2], net[3])) -> RandomDraws]]

\* BirdBrain.set.
Set ==
    /\ UNCHANGED aside
    /\ pc = "idle"
    /\ \E initOptions \in SetInputs :
          options' = SetOptions(options, initOptions)
    /\ UNCHANGED <<generations, nns, networks, pc, caller, nexts, max, cur,
                   ret, calls, scored>>

\* BirdBrain.nextGeneration.
NextGeneration ==
    /\ UNCHANGED aside
    /\ pc = "idle"
    /\ calls < MaxCalls
    /\ calls' = calls + 1
    /\ IF Len(generations) = 0
       THEN \E draws \in FirstDraws :
               AfterGenerations(Append(generations, <<>>),
                                FirstGeneration(draws))
       ELSE StartGeneration
    /\ caller' = "BirdBrain"
    /\ UNCHANGED <<options, scored>>

\* Generations.nextGeneration called on its own.
GenerationsNextGeneration ==
    /\ UNCHANGED aside
    /\ pc = "idle"
    /\ calls < MaxCalls
    /\ calls' = calls + 1
    /\ IF Len(generations) = 0
       THEN /\ ret' = "false"
            /\ UNCHANGED <<generations, nns, networks, pc, nexts, max, cur>>
       ELSE StartGeneration
    /\ caller' = "Generations"
    /\ UNCHANGED <<options, scored>>

\* An addGenome that starts a Generation when there is none.
GenerationsAddGenomeCreating(gens, genome) ==
    IF Len(gens) = 0
    THEN [value |-> "undefined", generations |-> <<<<genome>>>>]
    ELSE [value |-> "undefined",
          generations |->
             [gens EXCEPT ![Len(gens)] = AddGenome(gens[Len(gens)], genome)]]

\* Generations.addGenome: false without a generation, else the last
\* Generation's addGenome (which returns nothing).
GenerationsAddGenome(gens, genome) ==
    IF Len(gens) = 0 THEN [value |-> "false", generations |-> gens]
    ELSE [value |-> "undefined",
          generations |->
             [gens EXCEPT ![Len(gens)] = AddGenome(gens[Len(gens)], genome)]]

\* BirdBrain.networkScore.
NetworkScore ==
    /\ UNCHANGED aside
    /\ pc = "idle"
    /\ scored < MaxScored
    /\ scored' = scored + 1
    /\ \E network \in CallerNetworks, score \in Scores :
          LET r == GenerationsAddGenome(generations,
                                        Genome(score, GetSave(network)))
          IN  /\ generations' = r.generations
              /\ ret' = r.value
    /\ UNCHANGED <<options, nns, networks, pc, caller, nexts, max, cur, calls>>

\* One pass of the for loop: breed genomes cur and max.
BreedPair ==
    /\ UNCHANGED aside
    /\ pc = "for"
    /\ ForContinues(cur, max)
    /\ LET genomes == generations[Len(generations)]
           g1 == [score |-> genomes[cur + 1].score,
                  network |-> NetworkOf(genomes, cur + 1)]
           g2 == [score |-> genomes[max + 1].score,
                  network |-> NetworkOf(genomes, max + 1)]
           n1 == Len(g1.network.weights)
           n2 == Len(g2.network.weights)
       IN  \E draws \in [1..NbChildren ->
                           [1..(IF n1 < n2 THEN n2 ELSE n1) -> DrawTriples]] :
             LET children == Breed(g1, g2, NbChildren, draws)
                 gens == [generations EXCEPT ![Len(generations)] =
                            WriteThrough(genomes,
                               [c \in 1..Len(children) |->
                                   children[c].network])]
                 p == PushChildren(nexts, children)
             IN  IF p.returned THEN Return(gens, p.nexts)
                 ELSE /\ nexts' = p.nexts
                      /\ cur' = cur + 1
                      /\ generations' = gens
                      /\ UNCHANGED <<nns, networks, pc, max, ret>>
    /\ UNCHANGED <<options, caller, calls, scored>>

\* The for loop is over: max++.
AdvanceCursor ==
    /\ UNCHANGED aside
    /\ pc = "for"
    /\ ~ForContinues(cur, max)
    /\ max' = max + 1
    /\ pc' = "wrap"
    /\ UNCHANGED <<options, generations, nns, networks, caller, nexts, cur,
                   ret, calls, scored>>

\* if (max >= this.genomes.length - 1) max = 0, and the while loop repeats.
WrapCursor ==
    /\ UNCHANGED aside
    /\ pc = "wrap"
    /\ max' = Wrapped(max, generations[Len(generations)])
    /\ cur' = 0
    /\ pc' = "for"
    /\ UNCHANGED <<options, generations, nns, networks, caller, nexts, ret,
                   calls, scored>>

\* No page runs the game.
NoGame ==
    /\ birds = <<>>
    /\ gameScore = 0
    /\ alives = 0
    /\ generation = 0
    /\ gpc = "none"
    /\ key = -1
    /\ keys = 0

\* No Network is under study, no other engine was made and no game runs.
NothingAside ==
    /\ nn = <<>>
    /\ dataSet = [neurons |-> <<>>, weights |-> <<>>]
    /\ computed = <<>>
    /\ op = "new"
    /\ steps = 0
    /\ others = <<>>
    /\ NoGame

\* The state after new BirdBrain(o).
Init ==
    /\ options \in {SetOptions(Defaults, o) : o \in ConstructorOptions}
    /\ generations = <<>>
    /\ nns = <<>>
    /\ networks = <<>>
    /\ pc = "idle"
    /\ caller = "none"
    /\ nexts = <<>>
    /\ max = 0
    /\ cur = 0
    /\ ret = "undefined"
    /\ calls = 0
    /\ scored = 0
    /\ NothingAside

Next ==
    \/ Set
    \/ NextGeneration
    \/ GenerationsNextGeneration
    \/ NetworkScore
    \/ BreedPair
    \/ AdvanceCursor
    \/ WrapCursor

Spec == Init /\ [][Next]_vars

\* ------------------------------------------------------------ one generation
\* Configurations under which a single generateNextGeneration is studied.
GenerationOptions ==
    { [population |-> 2, network |-> <<1, <<>>, 1>>],
      [population |-> 3, network |-> <<1, <<>>, 1>>, elitism |-> 50,
       randomBehaviour |-> 25, mutationRate |-> 0],
      [population |-> 2, network |-> <<1, <<>>, 1>>, elitism |-> 50,
       randomBehaviour |-> 50],
      [population |-> 3, network |-> <<1, <<>>, 1>>, elitism |-> 25,
       randomBehaviour |-> 25, mutationRate |-> 0, nbChild |-> 2,
       scoreSort |-> 1],
      [population |-> 2, network |-> <<1, <<1>>, 1>>, elitism |-> 50,
       mutationRate |-> 0] }

\* The state after new BirdBrain(o) with one of these.
InitGeneration ==
    /\ options \in {SetOptions(Defaults, o) : o \in GenerationOptions}
    /\ generations = <<>>
    /\ nns = <<>>
    /\ networks = <<>>
    /\ pc = "idle"
    /\ caller = "none"
    /\ nexts = <<>>
    /\ max = 0
    /\ cur = 0
    /\ ret = "undefined"
    /\ calls = 0
    /\ scored = 0
    /\ NothingAside

\* The engine's calls without set: the configuration stays as constructed.
NextOfGeneration ==
    \/ NextGeneration
    \/ GenerationsNextGeneration
    \/ NetworkScore
    \/ BreedPair
    \/ AdvanceCursor
    \/ WrapCursor

SpecGeneration == InitGeneration /\ [][NextOfGeneration]_vars

\* The engine is synchronous: once called, generateNextGeneration keeps
\* executing its loop.
FairGeneration ==
    /\ SpecGeneration
    /\ WF_vars(BreedPair)
    /\ WF_vars(AdvanceCursor)
    /\ WF_vars(WrapCursor)

\* ------------------------------------------------------------ one Network
MaxSteps == 3

\* Topologies a Network is generated with: [input, hidden, output].
NetworkShapes == { <<2, <<1>>, 1>>, <<1, <<2>>, 1>> }

\* Input vectors the caller evaluates, in hundredths: of the input layer's
\* length, shorter and longer.
InputVectors ==
    { <<0>>, <<100>>, <<0, 100>>, <<100, 100>>, <<100, 0, 100>> }

\* Saves the caller may hand to setSave: the one getSave returned, the same
\* with its last weight missing, and the same with a weight too many.
CallerSaves ==
    {dataSet, [dataSet EXCEPT !.weights = Append(@, 50)]}
    \cup (IF dataSet.weights = <<>> THEN {}
          ELSE {[dataSet EXCEPT !.weights = SubSeq(@, 1, Len(@) - 1)]})

\* nn.perceptronGeneration(input, hidden, output) on a new Network, as
\* firstGeneration calls it.
Generate ==
    /\ op = "new"
    /\ \E shape \in NetworkShapes :
          \E draws \in [1..NbWeights(Sizes(shape[1], shape[2], shape[3]))
                           -> RandomDraws] :
             nn' = PerceptronGeneration(shape[1], shape[2], shape[3], draws)
    /\ op' = "perceptronGeneration"
    /\ UNCHANGED <<engine, dataSet, computed, steps, others, game>>

\* nn.getSave().
GetSaveOf ==
    /\ steps < MaxSteps
    /\ steps' = steps + 1
    /\ dataSet' = GetSave(nn)
    /\ op' = "getSave"
    /\ UNCHANGED <<engine, nn, computed, others, game>>

\* nn.setSave(save): it returns nothing and throws nothing.
SetSaveOf ==
    /\ steps < MaxSteps
    /\ steps' = steps + 1
    /\ dataSet.neurons # <<>>
    /\ \E given \in CallerSaves :
          /\ nn' = SetSave(given)
          /\ dataSet' = given
    /\ computed' = <<>>
    /\ op' = "setSave"
    /\ UNCHANGED <<engine, others, game>>

\* nn.compute(inputs).
ComputeOf ==
    /\ steps < MaxSteps
    /\ steps' = steps + 1
    /\ \E inputs \in InputVectors :
          LET r == Compute(nn, inputs)
          IN  /\ nn' = r.layers
              /\ IF r.threw
                 THEN /\ op' = "compute threw"
                      /\ computed' = computed
                 ELSE /\ op' = "compute"
                      /\ computed' =
                           Append(computed,
                                  [inputs |-> inputs, out |-> r.out])
    /\ UNCHANGED <<engine, dataSet, others, game>>

\* A new Network() beside a newly constructed engine.
InitNetwork ==
    /\ options = SetOptions(Defaults, [population |-> 2])
    /\ generations = <<>>
    /\ nns = <<>>
    /\ networks = <<>>
    /\ pc = "idle"
    /\ caller = "none"
    /\ nexts = <<>>
    /\ max = 0
    /\ cur = 0
    /\ ret = "undefined"
    /\ calls = 0
    /\ scored = 0
    /\ NothingAside

NextOfNetwork ==
    \/ Generate
    \/ GetSaveOf
    \/ SetSaveOf
    \/ ComputeOf

SpecNetwork == InitNetwork /\ [][NextOfNetwork]_vars

\* ------------------------------------------------------------ a scenario
\* A population of four evaluated in order, with one elite and one random
\* network; the history keeps the last Generation, or the last two.
ScenarioOptions ==
    { [population |-> 4, elitism |-> 25, randomBehaviour |-> 25,
       network |-> <<1, <<>>, 1>>, mutationRange |-> 0, historic |-> h] :
      h \in {0, 1} }

\* The scores of the networks of a population, by index.
ScenarioScores == <<10, 40, 20, 5>>

\* The caller's loop: networkScore for the next network of the population
\* that has none yet, in index order.
ReportScenario ==
    /\ pc = "idle"
    /\ generations # <<>>
    /\ LET k == Len(generations[Len(generations)]) + 1
       IN  /\ k <= Len(nns)
           /\ k <= Len(ScenarioScores)
           /\ LET r == GenerationsAddGenome(
                          generations,
                          Genome(ScenarioScores[k], GetSave(nns[k])))
              IN  /\ generations' = r.generations
                  /\ ret' = r.value
    /\ scored' = scored + 1
    /\ UNCHANGED <<options, nns, networks, pc, caller, nexts, max, cur, calls>>
    /\ UNCHANGED aside

\* The state after new BirdBrain(o) with one of these.
InitScenario ==
    /\ options \in {SetOptions(Defaults, o) : o \in ScenarioOptions}
    /\ generations = <<>>
    /\ nns = <<>>
    /\ networks = <<>>
    /\ pc = "idle"
    /\ caller = "none"
    /\ nexts = <<>>
    /\ max = 0
    /\ cur = 0
    /\ ret = "undefined"
    /\ calls = 0
    /\ scored = 0
    /\ NothingAside

NextOfScenario ==
    \/ NextGeneration
    \/ ReportScenario
    \/ BreedPair
    \/ AdvanceCursor
    \/ WrapCursor

SpecScenario == InitScenario /\ [][NextOfScenario]_vars

\* ------------------------------------------------------------ two engines
MaxOthers == 1

\* What the caller passes to a later new BirdBrain(...).
OtherOptions == { [population |-> 3], [scoreSort |-> 1, mutationRate |-> 0] }

\* new BirdBrain(o) once more: the constructor calls set, which writes the
\* one options object of the module, and gives the instance a history of
\* its own.
NewBirdBrain ==
    /\ pc = "idle"
    /\ Len(others) < MaxOthers
    /\ \E o \in OtherOptions : options' = SetOptions(options, o)
    /\ others' = Append(others, <<>>)
    /\ UNCHANGED <<generations, nns, networks, pc, caller, nexts, max, cur,
                   ret, calls, scored>>
    /\ UNCHANGED <<nn, dataSet, computed, op, steps, game>>

NextOfEngines ==
    \/ NewBirdBrain
    \/ NextGeneration
    \/ NetworkScore
    \/ BreedPair
    \/ AdvanceCursor
    \/ WrapCursor

SpecEngines == Init /\ [][NextOfEngines]_vars

\* ------------------------------------------------------------ the game
\* Game.js plays every population the engine returns: one bird for each
\* network, stepped once a tick while it is alive, its score reported when
\* it dies, and a new population asked for when no bird is left.
MaxTicks == 3

\* let Brain = new BirdBrain({population: 50, network: [2, [2], 1]}), with
\* three birds for fifty and the network [1, [], 1]: one elite, one random
\* and one bred network make the next population, and compute gives the
\* first input to the one input neuron and skips the second.
GameOptions == [population |-> 3, network |-> <<1, <<>>, 1>>]

\* this.birds[i].y / this.height, in hundredths: a new bird is at y = 250,
\* about half the height of the canvas; the model keeps it there.
BirdY == 49

\* nextHoll, in hundredths: 0 as long as no pipe is ahead, else the height
\* of the next pipe over the height of the canvas.
NextHolls == {0, 50}

\* new Bird(): alive; stepped counts its compute and update calls.
Bird == [alive |-> TRUE, stepped |-> 0]

\* An isItEnd that looks at the first bird only.
IsItEndFirst(bs) == bs = <<>> \/ ~bs[1].alive

\* Game.isItEnd: no bird of this.birds is alive.
IsItEnd(bs) == \A i \in 1..Len(bs) : ~bs[i].alive

RECURSIVE BirdLoop(_, _, _, _)
\* Game.update's for (let i in this.birds), from key k on; the loop goes
\* through the n keys of the array it was started on, while the body reads
\* this.birds and this.gen as they are now. g holds this.birds, this.gen,
\* this.alives, the history and the scores reported so far. in.dead are the
\* birds isDead finds dead after their step, in.nextHoll is nextHoll.
\* The loop ends done, or at the key where start() is called, or with the
\* TypeError of reading a bird or a network that is not there.
BirdLoop(k, n, g, in) ==
    IF k >= n THEN [g EXCEPT !.status = "done", !.key = k]
    ELSE IF k + 1 > Len(g.birds)
    THEN [g EXCEPT !.status = "TypeError", !.key = k]
    ELSE IF ~g.birds[k + 1].alive THEN BirdLoop(k + 1, n, g, in)
    ELSE IF k + 1 > Len(g.gen)
    THEN [g EXCEPT !.status = "TypeError", !.key = k]
    ELSE
      LET r == Compute(g.gen[k + 1], <<BirdY, in.nextHoll>>)
          stepped == [g EXCEPT !.birds[k + 1].stepped = @ + 1,
                               !.gen[k + 1] = r.layers]
          added == GenerationsAddGenome(
                      g.generations,
                      Genome(gameScore, GetSave(r.layers)))
          died == [stepped EXCEPT !.birds[k + 1].alive = FALSE,
                                  !.alives = @ - 1,
                                  !.generations = added.generations,
                                  !.reported = @ + 1]
      IN  IF r.threw THEN [g EXCEPT !.status = "TypeError", !.key = k]
          ELSE IF (k + 1) \notin in.dead THEN BirdLoop(k + 1, n, stepped, in)
          ELSE IF IsItEnd(died.birds)
               THEN [died EXCEPT !.status = "start", !.key = k]
               ELSE BirdLoop(k + 1, n, died, in)

\* What the per-bird loop starts from, with the birds bs, al of them alive.
Playing(bs, al) ==
    [birds |-> bs, gen |-> nns, alives |-> al,
     generations |-> generations, reported |-> 0,
     status |-> "running", key |-> 0]

\* The state the handler leaves once its per-bird loop, over an array of n
\* keys, has ended as r: in start() at the call of Brain.nextGeneration
\* (interval, score, pipes and birds are reset before it), or at the end of
\* update (this.score++), or halted by the TypeError.
AfterLoop(r, n, sc) ==
    /\ nns' = r.gen
    /\ generations' = r.generations
    /\ scored' = scored + r.reported
    /\ ret' = IF r.reported > 0 THEN "undefined" ELSE ret
    /\ alives' = r.alives
    /\ keys' = n
    /\ key' = r.key
    /\ IF r.status = "start"
       THEN /\ gpc' = "start"
            /\ birds' = <<>>
            /\ gameScore' = 0
       ELSE /\ gpc' = IF r.status = "done" THEN "update" ELSE "halted"
            /\ birds' = r.birds
            /\ gameScore' = IF r.status = "done" THEN sc + 1 ELSE sc
    /\ UNCHANGED <<options, networks, pc, caller, nexts, max, cur, calls>>
    /\ UNCHANGED <<nn, dataSet, computed, op, steps, others>>

\* What isDead and nextHoll may be for the birds bs in one pass. isDead
\* depends on the bird's height and on the pipes, which are not kept here:
\* any bird that is stepped may be found dead.
Passes(bs) ==
    [dead : SUBSET {i \in 1..Len(bs) : bs[i].alive}, nextHoll : NextHolls]

\* Game.update, one tick, up to its end or to the call of
\* Brain.nextGeneration inside start().
Update ==
    /\ gpc = "update"
    /\ gameScore < MaxTicks
    /\ \E in \in Passes(birds) :
          AfterLoop(BirdLoop(0, Len(birds), Playing(birds, alives), in),
                    Len(birds), gameScore)
    /\ UNCHANGED generation

\* Brain.nextGeneration as start() calls it.
BrainNextGeneration ==
    /\ gpc = "start"
    /\ calls = generation
    /\ NextGeneration

\* start() from the return of Brain.nextGeneration on, and then the rest of
\* the handler that called it: window.onload goes on to the first update;
\* update goes on with the keys left of its per-bird loop, whose body now
\* reads the new birds and the new networks, and then to its end.
Started ==
    /\ gpc = "start"
    /\ pc = "idle"
    /\ calls = generation + 1
    /\ ret = "Networks"
    /\ generation' = generation + 1
    /\ LET bs == [i \in 1..Len(nns) |-> Bird]
       IN  IF key = -1
           THEN /\ birds' = bs
                /\ alives' = Len(bs)
                /\ gpc' = "update"
                /\ UNCHANGED <<engine, gameScore, key, keys>>
                /\ UNCHANGED <<nn, dataSet, computed, op, steps, others>>
           ELSE \E in \in Passes(bs) :
                   AfterLoop(BirdLoop(key + 1, keys, Playing(bs, Len(bs)), in),
                             keys, gameScore)

\* The page is loaded: Brain is constructed, game is new Game(), and
\* window.onload has called start(), which is at Brain.nextGeneration().
InitGame ==
    /\ options = SetOptions(Defaults, GameOptions)
    /\ generations = <<>>
    /\ nns = <<>>
    /\ networks = <<>>
    /\ pc = "idle"
    /\ caller = "none"
    /\ nexts = <<>>
    /\ max = 0
    /\ cur = 0
    /\ ret = "undefined"
    /\ calls = 0
    /\ scored = 0
    /\ nn = <<>>
    /\ dataSet = [neurons |-> <<>>, weights |-> <<>>]
    /\ computed = <<>>
    /\ op = "new"
    /\ steps = 0
    /\ others = <<>>
    /\ birds = <<>>
    /\ gameScore = 0
    /\ alives = 0
    /\ generation = 0
    /\ gpc = "start"
    /\ key = -1
    /\ keys = 0

NextOfGame ==
    \/ BrainNextGeneration
    \/ BreedPair
    \/ AdvanceCursor
    \/ WrapCursor
    \/ Started
    \/ Update

SpecGame == InitGame /\ [][NextOfGame]_vars

\* ------------------------------------------------------------ claims
\* The generation the running (or the last) generateNextGeneration reads:
\* the last one while it runs, the one before the appended one afterwards.
Consumed ==
    IF pc # "idle" THEN generations[Len(generations)]
    ELSE generations[Len(generations) - 1]

\* C1: whenever generateNextGeneration returns, under a configuration with
\* elitism + randomBehaviour <= 1, the population it returns has exactly
\* options.population entries, never fewer and never more.
C1_PopulationConserved ==
    (/\ pc = "idle"
     /\ ret \in {"saves", "Networks"}
     /\ options.elitism + options.randomBehaviour <= 100)
    => Len(networks) = options.population

\* C2: generateNextGeneration, once running on a Generation that holds at
\* least one genome, eventually returns: the cursor loop never runs for ever.
C2_Returns ==
    (pc # "idle" /\ Len(generations[Len(generations)]) >= 1)
    ~> (pc = "idle")

\* a is a strictly worse score than b under options.scoreSort.
Worse(a, b) == IF options.scoreSort < 0 THEN a < b ELSE a > b

\* C3: every Generation's genomes are sorted by score, non-increasing in
\* descending mode and non-decreasing in ascending mode, so that no genome
\* has a better score than the one at index 0.
C3_Sorted ==
    \A g \in 1..Len(generations) :
        \A i, j \in 1..Len(generations[g]) :
            /\ i < j => ~Worse(generations[g][i].score,
                               generations[g][j].score)
            /\ ~Worse(generations[g][1].score, generations[g][j].score)

\* A descending Generation of three genomes that hold both scores.
C3_Witness ==
    /\ options.scoreSort < 0
    /\ \E g \in 1..Len(generations) :
          /\ Len(generations[g]) = 3
          /\ generations[g][1].score = 1
          /\ generations[g][3].score = 0

\* C4: after every BirdBrain.nextGeneration call under a finite historic d,
\* the history holds at most d + 1 Generations.
C4_RetentionBound ==
    (/\ pc = "idle"
     /\ caller = "BirdBrain"
     /\ ret \in {"Networks", "TypeError"}
     /\ options.historic # -1)
    => Len(generations) <= options.historic + 1

\* C5: with lowHistoric set, a BirdBrain.nextGeneration call whose
\* generateNextGeneration returned (so that the history holds two or more
\* Generations once the new one is appended) completes normally, and the
\* genomes of the Generation it consumed keep their score and lose their
\* network.
C5_StripCompletes ==
    [][(/\ pc = "for"
        /\ pc' = "idle"
        /\ caller = "BirdBrain"
        /\ options.lowHistoric)
       => /\ ret' = "Networks"
          /\ \A g \in 1..Len(generations') - 1 :
                \A i \in 1..Len(generations'[g]) :
                    "network" \notin DOMAIN generations'[g][i]]_vars

\* C6: when generateNextGeneration returns, the first
\* round(elitism * population) entries of its population have the neuron
\* counts and the weights of the genomes at the same indexes of the
\* Generation, and each is an object of its own, shared with no genome.
C6_ElitismFidelity ==
    [][(pc = "for" /\ pc' = "idle")
       => \A i \in 1..ElitismCount :
             /\ i <= Len(networks')
             /\ i <= Len(generations[Len(generations)])
             /\ networks'[i] =
                  [shared |-> <<>>,
                   neurons |->
                     generations[Len(generations)][i].network.neurons,
                   weights |->
                     generations[Len(generations)][i].network.weights]]_vars

\* A population was returned whose two elites differ.
C6_Witness ==
    /\ pc = "idle"
    /\ ret = "saves"
    /\ ElitismCount = 2
    /\ Consumed[1].network.weights # Consumed[2].network.weights
    /\ networks[2].weights = Consumed[2].network.weights

\* C7: addGenome places the new genome after every genome whose score is
\* as good or better and before the first strictly worse one, and leaves
\* the genomes already present in their order.
C7_StableInsertion ==
    [][(scored' = scored + 1 /\ Len(generations) > 0)
       => LET old == generations[Len(generations)]
              new == generations'[Len(generations')]
          IN  \E p \in 1..Len(new) :
                 /\ new = SubSeq(old, 1, p - 1) \o <<new[p]>>
                          \o SubSeq(old, p, Len(old))
                 /\ \A i \in 1..(p - 1) :
                       ~Worse(old[i].score, new[p].score)
                 /\ \A i \in p..Len(old) :
                       Worse(old[i].score, new[p].score)]_vars

\* A genome was inserted behind a different genome of the same score and
\* before a worse one.
C7_Witness ==
    /\ ret = "undefined"
    /\ Len(generations) > 0
    /\ LET g == generations[Len(generations)]
       IN  /\ Len(g) = 3
           /\ g[1].score = g[2].score
           /\ g[1].network # g[2].network
           /\ Worse(g[3].score, g[2].score)

\* C8: Generations.nextGeneration and Generations.addGenome (through
\* networkScore) on an empty history return false and leave it empty.
C8_EmptyHistoryRejects ==
    [][(/\ generations = <<>>
        /\ \/ scored' = scored + 1
           \/ calls' = calls + 1 /\ caller' = "Generations")
       => generations' = <<>> /\ ret' = "false"]_vars

\* Both calls were made on an empty history and returned false.
C8_Witness ==
    /\ generations = <<>>
    /\ ret = "false"
    /\ scored >= 1
    /\ caller = "Generations"

\* C9: with mutationRate = 0, every weight of every child that breed
\* returns is parent A's or parent B's weight at the same index.
C9_NoPerturbation ==
    [][(pc = "for" /\ cur < max /\ options.mutationRate = 0)
       => LET genomes == generations[Len(generations)]
              a == genomes[cur + 1].network.weights
              b == genomes[max + 1].network.weights
              out == IF pc' = "idle" THEN networks' ELSE nexts'
          IN  \A c \in (Len(nexts) + 1)..Len(out) :
                 \A k \in 1..Len(out[c].weights) :
                    out[c].weights[k] \in {a[k], b[k]}]_vars

\* A configuration the spec calls valid: sizes and population at least 1,
\* rates within [0, 1].
ValidConfiguration(o) ==
    /\ o.population >= 1
    /\ o.network[1] >= 1
    /\ o.network[3] >= 1
    /\ \A h \in 1..Len(o.network[2]) : o.network[2][h] >= 1
    /\ \A r \in {o.elitism, o.randomBehaviour, o.mutationRate} :
          0 <= r /\ r <= 100

\* C10: set never puts an invalid configuration into effect: a call with
\* one leaves the options as they were.
C10_InvalidRejected ==
    [][options' # options => ValidConfiguration(options')]_vars

\* A network as perceptronGeneration builds it from sizes of 1 or more:
\* no layer is empty, and every neuron has one numeric weight for each
\* neuron of the layer before (none in the input layer).
WellFormed(layers) ==
    /\ Len(layers) >= 2
    /\ \A l \in 1..Len(layers) :
          /\ Len(layers[l]) >= 1
          /\ \A j \in 1..Len(layers[l]) :
                /\ Len(layers[l][j].weights) =
                      (IF l = 1 THEN 0 ELSE Len(layers[l - 1]))
                /\ \A k \in 1..Len(layers[l][j].weights) :
                      IsNumber(layers[l][j].weights[k])

\* C11: a setSave call whose flat weights are fewer or more than the
\* topology of its neurons needs reports an error and leaves the network's
\* layers as they were.
C11_ShapeRejected ==
    [][(/\ steps' = steps + 1
        /\ op' \in {"setSave", "setSave threw"}
        /\ Len(dataSet'.weights) # NbWeights(dataSet'.neurons))
       => /\ op' = "setSave threw"
          /\ ToString(nn') = ToString(nn)]_steps

\* C12: compute returns an output only for an input vector that is as long
\* as the input layer; any other vector is rejected.
C12_WrongLengthRejected ==
    [][(/\ steps' = steps + 1
        /\ Len(computed') > Len(computed))
       => Len(computed'[Len(computed')].inputs) = Len(nn[1])]_vars

RECURSIVE Preceding(_, _, _)
\* How many weights come before those of neuron j of layer l, counting
\* layer by layer and neuron by neuron.
Preceding(layers, l, j) ==
    IF j > 1
    THEN Preceding(layers, l, j - 1) + Len(layers[l][j - 1].weights)
    ELSE IF l > 1
         THEN Preceding(layers, l - 1, Len(layers[l - 1]))
              + Len(layers[l - 1][Len(layers[l - 1])].weights)
         ELSE 0

\* C13: getSave lists the weights of a generated network in layer, neuron
\* and weight order, and setSave of that save gives a network with the same
\* layers, the same neurons in each and the same weight at every position.
C13_RoundTrip ==
    [][/\ (op' = "getSave" /\ WellFormed(nn))
          => /\ dataSet'.neurons = [l \in 1..Len(nn) |-> Len(nn[l])]
             /\ \A l \in 1..Len(nn) : \A j \in 1..Len(nn[l]) :
                   \A k \in 1..Len(nn[l][j].weights) :
                      dataSet'.weights[Preceding(nn, l, j) + k]
                         = nn[l][j].weights[k]
       /\ (/\ op = "getSave"
           /\ op' = "setSave"
           /\ dataSet' = dataSet
           /\ WellFormed(nn))
          => /\ Len(nn') = Len(nn)
             /\ \A l \in 1..Len(nn) :
                   /\ Len(nn'[l]) = Len(nn[l])
                   /\ \A j \in 1..Len(nn[l]) :
                         nn'[l][j].weights = nn[l][j].weights]_vars

\* A save of a network with a hidden layer of two different neurons was
\* handed back unchanged.
C13_Witness ==
    /\ op = "setSave"
    /\ Len(dataSet.weights) = NbWeights(dataSet.neurons)
    /\ WellFormed(nn)
    /\ Len(nn) = 3
    /\ Len(nn[2]) = 2
    /\ nn[2][1].weights # nn[2][2].weights
    /\ dataSet.weights = nn[2][1].weights \o nn[2][2].weights
                         \o nn[3][1].weights

\* C20: on a network whose weights stay the same, two compute calls with
\* the same input vector of the input layer's length return the same
\* output, whatever was evaluated in between.
C20_ComputeDeterministic ==
    WellFormed(nn) =>
        \A i, j \in 1..Len(computed) :
            (/\ computed[i].inputs = computed[j].inputs
             /\ Len(computed[i].inputs) = Len(nn[1]))
            => computed[i].out = computed[j].out

\* The same inputs were evaluated before and after other inputs that gave
\* another output.
C20_Witness ==
    /\ WellFormed(nn)
    /\ Len(computed) = 3
    /\ Len(computed[1].inputs) = Len(nn[1])
    /\ computed[3].inputs = computed[1].inputs
    /\ computed[2].inputs # computed[1].inputs
    /\ computed[2].out # computed[1].out
    /\ computed[3].out = computed[1].out

\* C15: the first BirdBrain.nextGeneration call returns options.population
\* Networks, each with the layers of options.network and, in every neuron,
\* one weight for each neuron of the layer before (none in the input
\* layer), and leaves a history of exactly one, empty, Generation.
C15_FirstGeneration ==
    [][(/\ generations = <<>>
        /\ calls' = calls + 1
        /\ caller' = "BirdBrain")
       => LET net == options.network
              sizes == <<net[1]>> \o net[2] \o <<net[3]>>
          IN  /\ ret' = "Networks"
              /\ generations' = << <<>> >>
              /\ Len(nns') = options.population
              /\ \A i \in 1..Len(nns') :
                    /\ Len(nns'[i]) = Len(sizes)
                    /\ \A l \in 1..Len(sizes) :
                          /\ Len(nns'[i][l]) = sizes[l]
                          /\ \A j \in 1..Len(nns'[i][l]) :
                                Len(nns'[i][l][j].weights) =
                                   (IF l = 1 THEN 0 ELSE sizes[l - 1])]_vars

\* A first population of two networks with a hidden layer was returned.
C15_Witness ==
    /\ calls = 1
    /\ caller = "BirdBrain"
    /\ ret = "Networks"
    /\ generations = << <<>> >>
    /\ options.population = 2
    /\ Len(nns) = 2
    /\ Len(nns[1]) = 3
    /\ Len(nns[2][3][1].weights) = 1

C16_ScoreInserted ==
    [][(scored' = scored + 1 /\ generations # <<>>)
       => LET n == Len(generations)
              old == generations[n]
              new == generations'[n]
              k == Len(old) + 1
          IN  /\ Len(generations') = n
              /\ \A g \in 1..(n - 1) : generations'[g] = generations[g]
              /\ Len(new) = Len(old) + 1
              /\ \E p \in 1..Len(new) :
                    /\ new = SubSeq(old, 1, p - 1) \o <<new[p]>>
                             \o SubSeq(old, p, Len(old))
                    /\ new[p].score = ScenarioScores[k]
                    /\ new[p].network.neurons =
                          [l \in 1..Len(nns[k]) |-> Len(nns[k][l])]
                    /\ new[p].network.weights = nns[k][2][1].weights]_vars

\* A score was reported into the second of two Generations and went in
\* front of a lower one.
C16_Witness ==
    /\ ret = "undefined"
    /\ Len(generations) = 2
    /\ Len(generations[1]) = 4
    /\ Len(generations[2]) = 2
    /\ generations[2][1].score = 40
    /\ generations[2][2].score = 10

\* C17: a set call changes the keys it is given, to the values it is given,
\* and leaves every other option at the value it had, whether that came
\* from the defaults, from the constructor or from an earlier set.
C17_SetMerges ==
    [][options' # options
       => \E initOptions \in SetInputs :
             /\ DOMAIN options' = DOMAIN options \cup DOMAIN initOptions
             /\ \A k \in DOMAIN options' :
                   options'[k] = (IF k \in DOMAIN initOptions
                                  THEN initOptions[k]
                                  ELSE options[k])]_vars

\* Both set calls were made on an engine constructed with options of its
\* own, and the values of all three are in effect.
C17_Witness ==
    /\ options.historic = 1
    /\ options.population = 0
    /\ options.elitism = 150
    /\ options.nbChild = 2
    /\ options.lowHistoric
    /\ options.randomBehaviour = Defaults.randomBehaviour

\* C18: constructing another BirdBrain changes none of the options the
\* engine made first, and its Generations, work with.
C18_NoAmbientState ==
    [][Len(others') > Len(others) => options' = options]_vars

BredPair == pc = "for" /\ pc' \in {"for", "idle"}

\* The pairs of the breeding stage and their order: every bred pair is
\* (genome cur, genome max) with 0 <= cur < max < len(genomes) - 1; after a
\* pair comes the pair (cur + 1, max); max is incremented once cur = max, and
\* is back at 0 as soon as it has reached len(genomes) - 1.
PairingOrder ==
    LET genomes == generations[Len(generations)]
    IN  /\ BredPair => (0 <= cur /\ cur < max /\ max < Len(genomes) - 1)
        /\ (pc = "for" /\ pc' = "for") => (cur' = cur + 1 /\ max' = max)
        /\ (pc = "for" /\ pc' = "wrap") => (cur = max /\ max' = max + 1)
        /\ (pc = "wrap" /\ pc' = "for")
              => /\ cur' = 0
                 /\ max' = IF max >= Len(genomes) - 1 THEN 0 ELSE max

\* C21: in the breeding stage every bred pair is (genome i, genome max) with
\* 0 <= i < max < len(genomes) - 1, in the order max = 1, 2, ... and for each
\* max i = 0 .. max - 1, the cursor back at 0 as soon as it reaches
\* len(genomes) - 1; a pair contributes options.nbChild children (at least
\* 1), and the stage returns at once when the population reaches
\* options.population: no pair is bred onto a population that is full, and
\* what is returned has options.population entries.
C21_PairingOrder ==
    [][/\ PairingOrder
       /\ NbChildren >= 1
       /\ BredPair => Len(nexts) < options.population
       /\ (pc = "for" /\ pc' = "for")
             => /\ Len(nexts') = Len(nexts) + NbChildren
                /\ Len(nexts') < options.population
       /\ (pc = "for" /\ pc' = "idle")
             => /\ Len(networks') - Len(nexts) \in 1..NbChildren
                /\ Len(networks') = options.population]_vars

\* The pairs and their order alone, whatever the length returned.
C21_OrderAlone == [][PairingOrder]_vars

\* C22: generateNextGeneration and breed leave the Generation they consume
\* unchanged: the number and the order of its genomes, every score and every
\* stored network (neuron counts and weights) are after the call what they
\* were before it, and no network returned shares an object with a stored
\* genome.
C22_GenerationUnchanged ==
    [][LET n == Len(generations)
           m == Len(generations')
       IN  /\ (/\ calls' = calls + 1
               /\ n > 0)
              => /\ generations' = generations
                 /\ \A k \in 1..Len(nexts') : nexts'[k].shared = <<>>
           /\ (pc # "idle" /\ pc' # "idle")
              => /\ generations' = generations
                 /\ \A k \in 1..Len(nexts') : nexts'[k].shared = <<>>
           /\ (pc = "for" /\ pc' = "idle")
              => /\ \A k \in 1..Len(networks') : networks'[k].shared = <<>>
                 /\ m >= 2 => generations'[m - 1] = generations[n]]_vars

\* generateNextGeneration has returned a population that holds a bred
\* network unlike every stored one, and the Generation it consumed is still
\* in the history with its three genomes.
C22_Witness ==
    /\ pc = "idle"
    /\ ret = "saves"
    /\ Len(generations) = 2
    /\ Len(generations[1]) = 3
    /\ \E k \in 1..Len(networks) :
          \A i \in 1..3 :
             networks[k].weights # generations[1][i].network.weights

\* C24: whenever the engine's nextGeneration throws instead of returning a
\* population, be it while the population is produced or in retention
\* enforcement, the history is what it was before the call: no Generation
\* was appended, removed or altered. (No step of the call before the one
\* that throws changes the history, so the history before that step is the
\* history before the call.)
C24_FailureLeavesHistory ==
    [][(/\ caller' = "BirdBrain"
        /\ ret' = "TypeError"
        /\ calls' = calls + 1 \/ pc = "for")
       => generations' = generations]_vars

\* The birds of bs that are dead.
Dead(bs) == {i \in 1..Len(bs) : ~bs[i].alive}

\* Between two ticks: the current Generation holds one genome for each dead
\* bird and none for a bird alive, each scored at a tick gone by, and
\* this.alives counts the birds alive.
ScoredOnceSoFar ==
    gpc = "update"
    => /\ Len(birds) = options.population
       /\ Len(nns) = options.population
       /\ Len(generations[Len(generations)]) = Cardinality(Dead(birds))
       /\ alives = Len(birds) - Cardinality(Dead(birds))
       /\ \A i \in 1..Len(generations[Len(generations)]) :
             generations[Len(generations)][i].score < gameScore

\* C23: in the game loop, between two consecutive Brain.nextGeneration
\* calls, Brain.networkScore is called exactly once for each network of the
\* generation, at the tick its bird dies and never for a bird already dead,
\* and nextGeneration is called again only when no bird is alive: every
\* nextGeneration but the first finds options.population genomes in the
\* current Generation, one for each network it returned the time before.
C23_ScoredOncePerBird ==
    [][/\ ScoredOnceSoFar'
       /\ scored' - scored <= Cardinality({i \in 1..Len(birds) :
                                              birds[i].alive})
                              + (IF birds = <<>> THEN Len(birds') ELSE 0)
       /\ Len(generations'[Len(generations')]) > 0
             => Len(generations'[Len(generations')])
                   = Len(generations[Len(generations)]) + scored' - scored
       /\ (calls' = calls + 1 /\ calls >= 1)
             => LET last == generations[Len(generations)]
                    n == options.population
                IN  /\ alives = 0
                    /\ birds = <<>>
                    /\ Len(last) = n
                    /\ Len(nns) = n
                    /\ \E f \in [1..n -> 1..n] :
                          /\ \A i, j \in 1..n : f[i] = f[j] => i = j
                          /\ \A i \in 1..n :
                                last[i].network = GetSave(nns[f[i]])]_vars

\* The game plays its second population, asked for when the three birds of
\* the first were dead and scored, and one of its birds has died.
C23_Witness ==
    /\ gpc = "update"
    /\ calls = 2
    /\ generation = 2
    /\ Len(birds) = 3
    /\ Cardinality(Dead(birds)) = 1
    /\ Len(generations[Len(generations)]) = 1

\* C25: at the end of every Game.update tick all birds of the current
\* generation that are alive have been stepped (compute and Bird.update) the
\* same number of times since the generation started; when the last bird
\* dies in the middle of the per-bird loop and start() replaces birds and
\* gen, no bird of the new generation is stepped in the rest of that tick.
C25_SteppedAlike ==
    gpc = "update"
    => \A i, j \in 1..Len(birds) :
          (birds[i].alive /\ birds[j].alive)
             => birds[i].stepped = birds[j].stepped
====
